---- MODULE Spec2Model ----
(***************************************************************************)
(* Model of privacy-scanner: the reference table of known data collectors  *)
(* (CollectorsDatabase, database.py), the scan orchestrator                *)
(* (PrivacyScanner, scanner.py), the parser of the package dump            *)
(* (AndroidDevice.get_app_details, utils/adb.py), the permission           *)
(* categorizer (utils/risk.py) and the command line (__main__.py).         *)
(*                                                                         *)
(* Variables: df is the loaded table; device, device_info and scan_results *)
(* are the attributes of the scanner; ret is the last call with its        *)
(* argument, exception and value; calls is the sequence of the calls that  *)
(* call made on its collaborators; input is the argument of the pure       *)
(* function a specification applies (a dump, a list of permissions).       *)
(*                                                                         *)
(* Representation of Python values                                         *)
(*  - a cell of the collection_frequency column is a record                *)
(*    [kind, n, s]: kind "nan" (missing cell), "int64" (cell of an integer *)
(*    column, a numpy.int64 scalar of value n), "float" (cell of a float   *)
(*    column, a numpy.float64 of value n/10), "inf" (float infinity) or    *)
(*    "str" (cell of an object column, the characters s);                  *)
(*  - a cell of the data_types column is [kind, toks]: "nan" or "str",     *)
(*    toks being the pieces of the string between its commas;              *)
(*  - a float score is kept in tenths (825 is 82.5).                       *)
(***************************************************************************)
EXTENDS Integers, Sequences, FiniteSets, TLC

VARIABLES df, device, device_info, scan_results, ret, calls, input

vars == <<df, device, device_info, scan_results, ret, calls, input>>

(***************************************************************************)
(* Bounds of the model.                                                    *)
(***************************************************************************)
MaxRows == 2
MaxStrLen == 2
MaxTokens == 2
MaxApps == 2

Keys == {"com.test.app1", "com.test.app2"}
Packages == Keys \cup {"COM.TEST.APP1"}

Alphabet == {"x", "2", "5", "6", "7"}
RawTokens == {"", "location", " Contacts", "camera", "microphone", "device_info"}

SeqsUpTo(S, n) == UNION {[1..k -> S] : k \in 0..n}

NONE == "None"

(***************************************************************************)
(* Cells of the table.                                                     *)
(***************************************************************************)
NaN == [kind |-> "nan", n |-> 0, s |-> <<>>]
Int64(i) == [kind |-> "int64", n |-> i, s |-> <<>>]
Float(t) == [kind |-> "float", n |-> t, s |-> <<>>]
Inf == [kind |-> "inf", n |-> 0, s |-> <<>>]
Str(chars) == [kind |-> "str", n |-> 0, s |-> chars]

TypesNaN == [kind |-> "nan", toks |-> <<>>]
TypesStr(toks) == [kind |-> "str", toks |-> toks]

FreqStrings == {Str(c) : c \in SeqsUpTo(Alphabet, MaxStrLen)}
FreqNumbers == {Int64(i) : i \in {-30, 25, 75, 200}}
                 \cup {Float(t) : t \in {-305, -5, 259, 759, 760, 2000}}
                 \cup {NaN, Inf}
FreqCells == FreqStrings \cup FreqNumbers

TypeCells == {TypesNaN} \cup {TypesStr(t) : t \in SeqsUpTo(RawTokens, MaxTokens) \ {<<>>}}

SampleFreqCells == {Int64(75), Float(2000), Float(-305), Str(<<"x">>)}
SampleTypeCells == {TypesNaN, TypesStr(<<"location">>), TypesStr(<<"contacts", "location">>)}

(***************************************************************************)
(* Python helpers used by the parsers.                                     *)
(***************************************************************************)
IsDigit(c) == c \in {"0", "1", "2", "3", "4", "5", "6", "7", "8", "9"}

DigitVal(c) ==
    CASE c = "0" -> 0 [] c = "1" -> 1 [] c = "2" -> 2 [] c = "3" -> 3
      [] c = "4" -> 4 [] c = "5" -> 5 [] c = "6" -> 6 [] c = "7" -> 7
      [] c = "8" -> 8 [] c = "9" -> 9

RECURSIVE ToInt(_)
ToInt(digits) ==
    IF digits = <<>> THEN 0
    ELSE 10 * ToInt(SubSeq(digits, 1, Len(digits) - 1)) + DigitVal(digits[Len(digits)])

\* re.findall(r'\d+', s): the maximal runs of decimal digits, left to right.
RECURSIVE FindAllFrom(_, _, _, _)
FindAllFrom(s, i, cur, acc) ==
    IF i > Len(s) THEN (IF cur = <<>> THEN acc ELSE Append(acc, cur))
    ELSE IF IsDigit(s[i]) THEN FindAllFrom(s, i + 1, Append(cur, s[i]), acc)
    ELSE FindAllFrom(s, i + 1, <<>>, IF cur = <<>> THEN acc ELSE Append(acc, cur))

FindAllDigits(s) == FindAllFrom(s, 1, <<>>, <<>>)

\* int(x) of a float given in tenths: truncation toward zero.
IntOfTenths(t) == IF t >= 0 THEN t \div 10 ELSE -((-t) \div 10)

\* t.strip().lower() on the tokens of the model.
StripLower(t) == IF t = " Contacts" THEN "contacts" ELSE t

Min(a, b) == IF a <= b THEN a ELSE b

(***************************************************************************)
(* CollectorsDatabase: the parsers.  A parser result is [raised, val]:     *)
(* raised tells whether the call ends with an exception.                   *)
(***************************************************************************)
Returns(v) == [raised |-> FALSE, val |-> v]
Raises == [raised |-> TRUE, val |-> 0]

\* The try block of _parse_frequency.  isinstance(value, (int, float)) holds
\* for a numpy.float64 (a subclass of float) and not for a numpy.int64, the
\* scalar pandas yields for a cell of an integer column; int(inf) raises
\* OverflowError.
ParseFrequencyTry(value) ==
    IF value.kind = "nan" \/ (value.kind = "str" /\ value.s = <<>>) THEN Returns(0)
    ELSE IF value.kind = "float" THEN Returns(IntOfTenths(value.n))
    ELSE IF value.kind = "inf" THEN Raises
    ELSE IF value.kind = "str" /\ FindAllDigits(value.s) # <<>>
         THEN Returns(ToInt(FindAllDigits(value.s)[1]))
    ELSE Returns(0)

_parse_frequency(value) ==
    IF ParseFrequencyTry(value).raised THEN Returns(0) ELSE ParseFrequencyTry(value)

_parse_data_types(value) ==
    IF value.kind = "nan" \/ (value.kind = "str" /\ value.toks = <<"">>) THEN <<>>
    ELSE IF value.kind = "str" THEN [i \in 1..Len(value.toks) |-> StripLower(value.toks[i])]
    ELSE <<>>

(***************************************************************************)
(* CollectorsDatabase: the table and its queries.  df.keycol is the header *)
(* of the identifier column of the CSV file, df.rows the rows in file      *)
(* order.                                                                  *)
(***************************************************************************)
\* Variant of Select: the identifier is matched without regard to case.
Lower(p) == IF p = "COM.TEST.APP1" THEN "com.test.app1" ELSE p
Select_caseless(package_id) ==
    IF df.keycol # "APK" THEN [raised |-> TRUE, rows |-> <<>>]
    ELSE [raised |-> FALSE,
          rows |-> SelectSeq(df.rows, LAMBDA r : Lower(r.key) = Lower(package_id))]

\* Variant of Select: the matching rows are taken last row first.
Select_last_first(package_id) ==
    IF df.keycol # "APK" THEN [raised |-> TRUE, rows |-> <<>>]
    ELSE LET rows == SelectSeq(df.rows, LAMBDA r : r.key = package_id)
         IN [raised |-> FALSE,
             rows |-> [i \in 1..Len(rows) |-> rows[Len(rows) + 1 - i]]]

\* Variant of Select: the query is put in lower case before the match.
Select_lowered_query(package_id) ==
    IF df.keycol # "APK" THEN [raised |-> TRUE, rows |-> <<>>]
    ELSE [raised |-> FALSE,
          rows |-> SelectSeq(df.rows, LAMBDA r : r.key = Lower(package_id))]

\* self.df[self.df['APK'] == package_id]: KeyError without an APK column.
Select(package_id) ==
    IF df.keycol # "APK" THEN [raised |-> TRUE, rows |-> <<>>]
    ELSE [raised |-> FALSE, rows |-> SelectSeq(df.rows, LAMBDA r : r.key = package_id)]

NoDetails == [isNone |-> TRUE, collection_frequency |-> 0, data_types |-> <<>>]

get_app_details(package_id) ==
    LET app_data == Select(package_id) IN
    IF app_data.raised THEN NoDetails
    ELSE IF Len(app_data.rows) = 0 THEN NoDetails
    ELSE LET row == app_data.rows[1] IN
         [isNone |-> FALSE,
          collection_frequency |-> _parse_frequency(row.collection_frequency).val,
          data_types |-> _parse_data_types(row.data_types)]

\* Variant of get_risk_level: the HIGH threshold is inclusive.
get_risk_level_inclusive(package_id) ==
    LET app_data == Select(package_id) IN
    IF app_data.raised THEN "NOT_FOUND"
    ELSE IF Len(app_data.rows) = 0 THEN "NOT_FOUND"
    ELSE LET frequency == _parse_frequency(app_data.rows[1].collection_frequency) IN
         IF frequency.raised THEN "NOT_FOUND"
         ELSE IF frequency.val >= 75 THEN "HIGH"
         ELSE IF frequency.val > 25 THEN "MEDIUM"
         ELSE "LOW"

get_risk_level(package_id) ==
    LET app_data == Select(package_id) IN
    IF app_data.raised THEN "NOT_FOUND"
    ELSE IF Len(app_data.rows) = 0 THEN "NOT_FOUND"
    ELSE LET frequency == _parse_frequency(app_data.rows[1].collection_frequency) IN
         IF frequency.raised THEN "NOT_FOUND"
         ELSE IF frequency.val > 75 THEN "HIGH"
         ELSE IF frequency.val > 25 THEN "MEDIUM"
         ELSE "LOW"

\* In tenths: min(100.0, base_score * (1.0 + len(data_types) * 0.1)).
get_risk_score(package_id) ==
    LET app_data == Select(package_id) IN
    IF app_data.raised THEN 0
    ELSE IF Len(app_data.rows) = 0 THEN 0
    ELSE LET row == app_data.rows[1]
             base_score == _parse_frequency(row.collection_frequency)
             data_types == _parse_data_types(row.data_types)
         IN IF base_score.raised THEN 0
            ELSE Min(1000, base_score.val * (10 + Len(data_types)))

Contains(list, x) == \E i \in 1..Len(list) : list[i] = x

\* Variant of get_risk_factors: the data-type factors follow the order of the
\* tags in the row.
TagFactor(t) ==
    IF t = "location" THEN <<"Collects location data">>
    ELSE IF t = "contacts" THEN <<"Accesses contact information">>
    ELSE IF t = "camera" THEN <<"Uses camera">>
    ELSE IF t = "microphone" THEN <<"Uses microphone">>
    ELSE <<>>

RECURSIVE TagFactors(_)
TagFactors(data_types) ==
    IF data_types = <<>> THEN <<>>
    ELSE TagFactor(Head(data_types)) \o TagFactors(Tail(data_types))

get_risk_factors_row_order(package_id) ==
    LET app_data == Select(package_id) IN
    IF app_data.raised THEN <<>>
    ELSE IF Len(app_data.rows) = 0 THEN <<>>
    ELSE LET row == app_data.rows[1]
             frequency == _parse_frequency(row.collection_frequency)
             data_types == _parse_data_types(row.data_types)
         IN (IF frequency.val > 75 THEN <<"High data collection frequency">>
             ELSE IF frequency.val > 25 THEN <<"Moderate data collection frequency">>
             ELSE <<>>)
            \o TagFactors(data_types)

get_risk_factors(package_id) ==
    LET app_data == Select(package_id) IN
    IF app_data.raised THEN <<>>
    ELSE IF Len(app_data.rows) = 0 THEN <<>>
    ELSE LET row == app_data.rows[1]
             frequency == _parse_frequency(row.collection_frequency)
             data_types == _parse_data_types(row.data_types)
         IN IF frequency.raised THEN <<>>
            ELSE (IF frequency.val > 75 THEN <<"High data collection frequency">>
                  ELSE IF frequency.val > 25 THEN <<"Moderate data collection frequency">>
                  ELSE <<>>)
                 \o (IF Contains(data_types, "location") THEN <<"Collects location data">> ELSE <<>>)
                 \o (IF Contains(data_types, "contacts") THEN <<"Accesses contact information">> ELSE <<>>)
                 \o (IF Contains(data_types, "camera") THEN <<"Uses camera">> ELSE <<>>)
                 \o (IF Contains(data_types, "microphone") THEN <<"Uses microphone">> ELSE <<>>)

\* f"Collects data approximately {frequency} times per day"
FrequencyBehavior(frequency) == [text |-> "Collects data approximately N times per day", n |-> frequency, t |-> ""]
\* f"Known to collect {data_type} data"
TypeBehavior(data_type) == [text |-> "Known to collect T data", n |-> 0, t |-> data_type]

\* Variant of get_known_behaviors: the summary is added for frequency 0 too.
get_known_behaviors_zero(package_id) ==
    LET app_data == Select(package_id) IN
    IF app_data.raised THEN <<>>
    ELSE IF Len(app_data.rows) = 0 THEN <<>>
    ELSE LET row == app_data.rows[1]
             data_types == _parse_data_types(row.data_types)
             frequency == _parse_frequency(row.collection_frequency)
         IN (IF frequency.val >= 0 THEN <<FrequencyBehavior(frequency.val)>> ELSE <<>>)
            \o [i \in 1..Len(data_types) |-> TypeBehavior(data_types[i])]

get_known_behaviors(package_id) ==
    LET app_data == Select(package_id) IN
    IF app_data.raised THEN <<>>
    ELSE IF Len(app_data.rows) = 0 THEN <<>>
    ELSE LET row == app_data.rows[1]
             data_types == _parse_data_types(row.data_types)
             frequency == _parse_frequency(row.collection_frequency)
         IN IF frequency.raised THEN <<>>
            ELSE (IF frequency.val > 0 THEN <<FrequencyBehavior(frequency.val)>> ELSE <<>>)
                 \o [i \in 1..Len(data_types) |-> TypeBehavior(data_types[i])]

(***************************************************************************)
(* The tables a CSV file can load.                                         *)
(***************************************************************************)
Row(k, f, t) == [key |-> k, collection_frequency |-> f, data_types |-> t]

SampleRows == {Row("com.test.app1", Int64(75), TypesStr(<<"location">>)),
               Row("com.test.app1", Float(2000), TypesStr(<<"location", "contacts">>)),
               Row("com.test.app2", Str(<<"x">>), TypesNaN)}

RichRows == {Row(k, f, t) : k \in Keys, f \in FreqCells, t \in SampleTypeCells}
              \cup {Row(k, f, t) : k \in Keys, f \in SampleFreqCells, t \in TypeCells}

KeyColumns == {"APK", "package_id"}

SampleTables == [keycol : KeyColumns, rows : SeqsUpTo(SampleRows, MaxRows)]
RichTables == [keycol : KeyColumns, rows : {<<r>> : r \in RichRows}]

(***************************************************************************)
(* The device collaborator (device.py, utils/adb.py).                      *)
(***************************************************************************)
\* The four queries of AndroidDevice.get_device_info; each one may exit
\* non-zero.
DeviceQueries == {"getprop", "android_id", "bluetooth_address", "ip_addr"}
QueryFailures == SUBSET DeviceQueries
SampleQueryFailures == {{}, {"android_id"}}

\* AndroidDevice.get_device_info: a field is filled only when its query
\* exits with code 0, else it keeps the default of the info dictionary.
get_device_info(failed) ==
    [manufacturer |-> IF "getprop" \in failed THEN NONE ELSE "Google",
     model |-> IF "getprop" \in failed THEN NONE ELSE "Pixel",
     identifiers |->
        [android_id |-> IF "android_id" \in failed THEN NONE ELSE <<"a", "1", "b", "2", "c", "3", "d", "4", "e", "5">>,
         mac_bluetooth |-> IF "bluetooth_address" \in failed THEN NONE
                           ELSE "AA:BB:CC:DD:EE:FF",
         ip_addresses |-> IF "ip_addr" \in failed THEN <<>> ELSE <<"192.168.1.5">>]]

\* AndroidDevice.get_app_details: raises when pm dump exits non-zero, else
\* returns the details record of the package.
device_get_app_details(package_id, failing) ==
    IF package_id \in failing THEN Raises
    ELSE Returns([package_id |-> package_id, app_name |-> package_id])

(***************************************************************************)
(* PrivacyScanner.                                                         *)
(***************************************************************************)
EmptyDict == [k \in {} |-> NONE]
Put(d, k, v) == [x \in (DOMAIN d) \cup {k} |-> IF x = k THEN v ELSE d[x]]

Call(op, arg, exc, val) == [op |-> op, arg |-> arg, exc |-> exc, val |-> val]

\* Variant of ScanRecord: the classification is that of the first row of
\* the table, whatever the package.
ScanRecord_first_row(package_id, app_details) ==
    LET first == IF Len(df.rows) > 0 THEN df.rows[1].key ELSE package_id
        app_data == get_app_details(first)
        risk_level == get_risk_level(first)
    IN [app_name |-> app_details.app_name,
        package_id |-> package_id,
        risk_level |-> risk_level,
        collection_frequency |-> IF app_data.isNone THEN 0 ELSE app_data.collection_frequency,
        data_types |-> IF app_data.isNone THEN <<>> ELSE app_data.data_types]

\* One iteration of the loop of scan_apps: the record stored for package_id.
ScanRecord(package_id, app_details) ==
    LET app_data == get_app_details(package_id)
        risk_level == get_risk_level(package_id)
    IN [app_name |-> app_details.app_name,
        package_id |-> package_id,
        risk_level |-> risk_level,
        collection_frequency |-> IF app_data.isNone THEN 0 ELSE app_data.collection_frequency,
        data_types |-> IF app_data.isNone THEN <<>> ELSE app_data.data_types]

\* Variant of ScanLoop: a package whose table lookup raises is skipped.
RECURSIVE ScanLoop_skip_unclassified(_, _, _, _)
ScanLoop_skip_unclassified(installed_apps, failing, i, results) ==
    IF i > Len(installed_apps) THEN results
    ELSE LET package_id == installed_apps[i]
             app_details == device_get_app_details(package_id, failing)
         IN IF app_details.raised \/ Select(package_id).raised
            THEN ScanLoop_skip_unclassified(installed_apps, failing, i + 1, results)
            ELSE ScanLoop_skip_unclassified(installed_apps, failing, i + 1,
                                Put(results, package_id, ScanRecord(package_id, app_details.val)))

\* Variant of ScanLoop: the loop ends at the first failing package.
RECURSIVE ScanLoop_break(_, _, _, _)
ScanLoop_break(installed_apps, failing, i, results) ==
    IF i > Len(installed_apps) THEN results
    ELSE LET package_id == installed_apps[i]
             app_details == device_get_app_details(package_id, failing)
         IN IF app_details.raised
            THEN results
            ELSE ScanLoop_break(installed_apps, failing, i + 1,
                                Put(results, package_id, ScanRecord(package_id, app_details.val)))

RECURSIVE ScanLoop(_, _, _, _)
ScanLoop(installed_apps, failing, i, results) ==
    IF i > Len(installed_apps) THEN results
    ELSE LET package_id == installed_apps[i]
             app_details == device_get_app_details(package_id, failing)
         IN IF app_details.raised
            THEN ScanLoop(installed_apps, failing, i + 1, results)
            ELSE ScanLoop(installed_apps, failing, i + 1,
                          Put(results, package_id, ScanRecord(package_id, app_details.val)))

Range(seq) == {seq[i] : i \in 1..Len(seq)}
InstalledLists == {l \in SeqsUpTo(Packages, MaxApps) : Cardinality(Range(l)) = Len(l)}

\* The inputs of a call of scan_apps that enumerated no package.
NotEnumerated == [enumerated |-> FALSE, installed_apps |-> <<>>, failing |-> {}]

InitScanner ==
    /\ device = NONE
    /\ scan_results = EmptyDict
    /\ device_info = EmptyDict
    /\ ret = Call("__init__", NONE, NONE, NONE)
    /\ calls = <<>>

\* A call the scanner makes on one of its collaborators.
DeviceCall(op, arg) == [on |-> "device", op |-> op, arg |-> arg]
DatabaseCall(op, arg) == [on |-> "database", op |-> op, arg |-> arg]

\* The collaborator calls of the loop of scan_apps, in order: the detail
\* fetch of each package and, when it returned, the two table queries.
RECURSIVE ScanCalls(_, _, _)
ScanCalls(installed_apps, failing, i) ==
    IF i > Len(installed_apps) THEN <<>>
    ELSE LET package_id == installed_apps[i]
             fetch == <<DeviceCall("get_app_details", package_id)>>
             classify == <<DatabaseCall("get_app_details", package_id),
                           DatabaseCall("get_risk_level", package_id)>>
         IN (IF device_get_app_details(package_id, failing).raised
             THEN fetch ELSE fetch \o classify)
            \o ScanCalls(installed_apps, failing, i + 1)

\* Variant of connect_device: the device attribute is assigned before the
\* availability check raises.
connect_device_assign_first ==
    \/ /\ device' = "Device"
       /\ ret' = Call("connect_device", NONE, "RuntimeError: ADB not available", NONE)
       /\ calls' = <<DeviceCall("check_adb", NONE)>>
       /\ UNCHANGED <<input, df, device_info, scan_results>>
    \/ \E failed \in SampleQueryFailures :
          /\ device' = "Device"
          /\ device_info' = get_device_info(failed)
          /\ ret' = Call("connect_device", NONE, NONE, NONE)
          /\ calls' = <<DeviceCall("check_adb", NONE), DeviceCall("get_device_info", NONE)>>
          /\ UNCHANGED <<input, df, scan_results>>

\* Device() raises when check_adb fails; otherwise the device and its
\* information are stored.
connect_device ==
    \/ /\ ret' = Call("connect_device", NONE, "RuntimeError: ADB not available", NONE)
       /\ calls' = <<DeviceCall("check_adb", NONE)>>
       /\ UNCHANGED <<input, df, device, device_info, scan_results>>
    \/ \E failed \in SampleQueryFailures :
          /\ device' = "Device"
          /\ device_info' = get_device_info(failed)
          /\ ret' = Call("connect_device", NONE, NONE, NONE)
          /\ calls' = <<DeviceCall("check_adb", NONE), DeviceCall("get_device_info", NONE)>>
          /\ UNCHANGED <<input, df, scan_results>>

\* Variant of scan_apps: the stored results are emptied before the
\* enumeration.
scan_apps_reset_results ==
    IF device = NONE
    THEN /\ ret' = Call("scan_apps", NotEnumerated, "RuntimeError: No device connected", NONE)
         /\ calls' = <<>>
         /\ UNCHANGED <<input, df, device, device_info, scan_results>>
    ELSE \/ /\ ret' = Call("scan_apps", NotEnumerated, "RuntimeError: ADB command failed", NONE)
            /\ calls' = <<DeviceCall("get_installed_apps", NONE)>>
            /\ scan_results' = EmptyDict
            /\ UNCHANGED <<input, df, device, device_info>>
         \/ \E installed_apps \in InstalledLists :
            \E failing \in SUBSET Range(installed_apps) :
               LET results == ScanLoop(installed_apps, failing, 1, EmptyDict) IN
               /\ scan_results' = results
               /\ ret' = Call("scan_apps",
                              [enumerated |-> TRUE, installed_apps |-> installed_apps,
                               failing |-> failing],
                              NONE, results)
               /\ calls' = <<DeviceCall("get_installed_apps", NONE)>>
                            \o ScanCalls(installed_apps, failing, 1)
               /\ UNCHANGED <<input, df, device, device_info>>

\* Variant of scan_apps: a failure of the enumeration is logged and the scan
\* returns an empty mapping.
scan_apps_swallow_enumeration ==
    IF device = NONE
    THEN /\ ret' = Call("scan_apps", NotEnumerated, "RuntimeError: No device connected", NONE)
         /\ calls' = <<>>
         /\ UNCHANGED <<input, df, device, device_info, scan_results>>
    ELSE \/ /\ ret' = Call("scan_apps", NotEnumerated, NONE, EmptyDict)
            /\ calls' = <<DeviceCall("get_installed_apps", NONE)>>
            /\ scan_results' = EmptyDict
            /\ UNCHANGED <<input, df, device, device_info>>
         \/ \E installed_apps \in InstalledLists :
            \E failing \in SUBSET Range(installed_apps) :
               LET results == ScanLoop(installed_apps, failing, 1, EmptyDict) IN
               /\ scan_results' = results
               /\ ret' = Call("scan_apps",
                              [enumerated |-> TRUE, installed_apps |-> installed_apps,
                               failing |-> failing],
                              NONE, results)
               /\ calls' = <<DeviceCall("get_installed_apps", NONE)>>
                            \o ScanCalls(installed_apps, failing, 1)
               /\ UNCHANGED <<input, df, device, device_info>>

\* scan_apps: the not-connected check, then the enumeration, then the loop.
scan_apps ==
    IF device = NONE
    THEN /\ ret' = Call("scan_apps", NotEnumerated, "RuntimeError: No device connected", NONE)
         /\ calls' = <<>>
         /\ UNCHANGED <<input, df, device, device_info, scan_results>>
    ELSE \/ /\ ret' = Call("scan_apps", NotEnumerated, "RuntimeError: ADB command failed", NONE)
            /\ calls' = <<DeviceCall("get_installed_apps", NONE)>>
            /\ UNCHANGED <<input, df, device, device_info, scan_results>>
         \/ \E installed_apps \in InstalledLists :
            \E failing \in SUBSET Range(installed_apps) :
               LET results == ScanLoop(installed_apps, failing, 1, EmptyDict) IN
               /\ scan_results' = results
               /\ ret' = Call("scan_apps",
                              [enumerated |-> TRUE, installed_apps |-> installed_apps,
                               failing |-> failing],
                              NONE, results)
               /\ calls' = <<DeviceCall("get_installed_apps", NONE)>>
                            \o ScanCalls(installed_apps, failing, 1)
               /\ UNCHANGED <<input, df, device, device_info>>

(***************************************************************************)
(* Calls of the queries of the table.                                      *)
(***************************************************************************)
GetAppDetails ==
    \E p \in Packages :
        /\ ret' = Call("get_app_details", p, NONE, get_app_details(p))
        /\ calls' = <<>> /\ UNCHANGED <<input, df, device, device_info, scan_results>>

GetRiskLevel ==
    \E p \in Packages :
        /\ ret' = Call("get_risk_level", p, NONE, get_risk_level(p))
        /\ calls' = <<>> /\ UNCHANGED <<input, df, device, device_info, scan_results>>

GetRiskScore ==
    \E p \in Packages :
        /\ ret' = Call("get_risk_score", p, NONE, get_risk_score(p))
        /\ calls' = <<>> /\ UNCHANGED <<input, df, device, device_info, scan_results>>

GetRiskFactors ==
    \E p \in Packages :
        /\ ret' = Call("get_risk_factors", p, NONE, get_risk_factors(p))
        /\ calls' = <<>> /\ UNCHANGED <<input, df, device, device_info, scan_results>>

GetKnownBehaviors ==
    \E p \in Packages :
        /\ ret' = Call("get_known_behaviors", p, NONE, get_known_behaviors(p))
        /\ calls' = <<>> /\ UNCHANGED <<input, df, device, device_info, scan_results>>

\* _parse_frequency applied to the frequency cell of a row of the table.
ParseFrequency ==
    \E i \in 1..Len(df.rows) :
        LET value == df.rows[i].collection_frequency
            r == _parse_frequency(value)
        IN /\ ret' = Call("_parse_frequency", value,
                          IF r.raised THEN "Exception" ELSE NONE, r.val)
           /\ calls' = <<>> /\ UNCHANGED <<input, df, device, device_info, scan_results>>

Queries ==
    \/ GetAppDetails
    \/ GetRiskLevel
    \/ GetRiskScore
    \/ GetRiskFactors
    \/ GetKnownBehaviors
    \/ ParseFrequency

(***************************************************************************)
(* The command line (__main__.py): scan_device, generate_report and main.  *)
(***************************************************************************)
ScannerCall(op) == [on |-> "scanner", op |-> op, arg |-> NONE]

\* list(apps.values()): the records in the order of their insertion.
DictValues(installed_apps, results) ==
    LET kept == SelectSeq(installed_apps, LAMBDA p : p \in DOMAIN results)
    IN [i \in 1..Len(kept) |-> results[kept[i]]]

\* PrivacyScanner.scan_device on a fresh scanner: connect_device, scan_apps,
\* then the scan data.  adb_ok, failed, enum_ok and failing are the outcomes
\* of the device commands.
scan_device(adb_ok, failed, enum_ok, installed_apps, failing) ==
    IF ~adb_ok
    THEN [exc |-> "RuntimeError: ADB not available", val |-> NONE,
          device |-> NONE, device_info |-> EmptyDict, scan_results |-> EmptyDict]
    ELSE IF ~enum_ok
    THEN [exc |-> "RuntimeError: ADB command failed", val |-> NONE,
          device |-> "Device", device_info |-> get_device_info(failed),
          scan_results |-> EmptyDict]
    ELSE LET apps == ScanLoop(installed_apps, failing, 1, EmptyDict) IN
         [exc |-> NONE,
          val |-> [device_info |-> get_device_info(failed),
                   apps |-> DictValues(installed_apps, apps),
                   total_apps |-> Cardinality(DOMAIN apps)],
          device |-> "Device", device_info |-> get_device_info(failed),
          scan_results |-> apps]

\* s[-n:] of a Python string kept as the sequence of its characters.
Suffix(s, n) == SubSeq(s, IF Len(s) > n THEN Len(s) - n + 1 ELSE 1, Len(s))

\* PrivacyScanner.generate_report: the name of the report directory is built
\* from the device information (None[-5:] raises TypeError), the directory
\* is created under privacy_scanner/reports, then the JSON and the HTML
\* documents are written.
generate_report(scan_data, output_dir) ==
    LET info == scan_data.device_info IN
    IF info.identifiers.android_id = NONE
    THEN [exc |-> "TypeError: 'NoneType' object is not subscriptable",
          val |-> NONE, files |-> {}]
    ELSE LET device_name == <<info.manufacturer, info.model,
                              Suffix(info.identifiers.android_id, 5)>>
             report_dir == [base |-> "privacy_scanner/reports", name |-> device_name]
             json_path == [dir |-> report_dir, file |-> "report.json"]
             html_path == [dir |-> report_dir, file |-> "report.html"]
         IN [exc |-> NONE,
             val |-> [json_path |-> json_path, html_path |-> html_path],
             files |-> {json_path, html_path}]

\* a['risk_level'] == RiskLevel.X in main: risk_level is the name of the
\* member, a str, and a str is never equal to a member of the Enum.
StrEqualsMember(s, member) == FALSE

CountMember(apps, member) ==
    Len(SelectSeq(apps, LAMBDA a : StrEqualsMember(a.risk_level, member)))

\* The summary main prints after the reports are generated.
Summary(scan_data) ==
    [total_apps |-> scan_data.total_apps,
     high |-> CountMember(scan_data.apps, "RiskLevel.HIGH"),
     medium |-> CountMember(scan_data.apps, "RiskLevel.MEDIUM"),
     low |-> CountMember(scan_data.apps, "RiskLevel.LOW"),
     unknown |-> CountMember(scan_data.apps, "RiskLevel.NOT_FOUND")]

ReportDirs == {"privacy_scanner/reports", "/tmp/reports"}

\* The inputs of a run of main: the --reports-dir argument and the outcomes
\* of loading the table and of the device commands.
MainInputs(reports_dir, db_ok, adb_ok, failed, enum_ok, installed_apps, failing) ==
    [reports_dir |-> reports_dir, db_ok |-> db_ok, adb_ok |-> adb_ok,
     failed |-> failed, enum_ok |-> enum_ok,
     installed_apps |-> installed_apps, failing |-> failing]

Exit(exit_code, error, files, stdout) ==
    [exit_code |-> exit_code, error |-> error, files |-> files, stdout |-> stdout]

\* Variant of RunScanner: the reports are generated whether or not the scan
\* succeeded, from the data of an empty scan when it failed.
RunScanner_report_always(inputs) ==
    LET scan == scan_device(inputs.adb_ok, inputs.failed, inputs.enum_ok,
                            inputs.installed_apps, inputs.failing)
        data == IF scan.exc # NONE
                THEN [device_info |-> get_device_info({}), apps |-> <<>>, total_apps |-> 0]
                ELSE scan.val
        report == generate_report(data, inputs.reports_dir)
        reported == <<ScannerCall("__init__"), ScannerCall("scan_device"),
                      ScannerCall("generate_report")>>
    IN IF scan.exc # NONE
       THEN [scan |-> scan, calls |-> reported,
             exit |-> Exit(1, scan.exc, report.files, NONE)]
       ELSE IF report.exc # NONE
       THEN [scan |-> scan, calls |-> reported,
             exit |-> Exit(1, report.exc, report.files, NONE)]
       ELSE [scan |-> scan, calls |-> reported,
             exit |-> Exit(0, NONE, report.files, Summary(scan.val))]

\* The body of main after the table is loaded: scan_device, generate_report,
\* the printed summary; any exception is logged and the process exits 1.
RunScanner(inputs) ==
    LET scan == scan_device(inputs.adb_ok, inputs.failed, inputs.enum_ok,
                            inputs.installed_apps, inputs.failing)
        scanned == <<ScannerCall("__init__"), ScannerCall("scan_device")>>
    IN IF scan.exc # NONE
       THEN [scan |-> scan, calls |-> scanned,
             exit |-> Exit(1, scan.exc, {}, NONE)]
       ELSE LET report == generate_report(scan.val, inputs.reports_dir)
                reported == scanned \o <<ScannerCall("generate_report")>>
            IN IF report.exc # NONE
               THEN [scan |-> scan, calls |-> reported,
                     exit |-> Exit(1, report.exc, report.files, NONE)]
               ELSE [scan |-> scan, calls |-> reported,
                     exit |-> Exit(0, NONE, report.files, Summary(scan.val))]

\* The inputs of the runs of main given --reports-dir: the table cannot be
\* loaded, or the device tool is unavailable, or the enumeration fails, or
\* the scan completes.
MainInputSet(reports_dir) ==
    {MainInputs(reports_dir, FALSE, FALSE, {}, FALSE, <<>>, {}),
     MainInputs(reports_dir, TRUE, FALSE, {}, FALSE, <<>>, {})}
    \cup {MainInputs(reports_dir, TRUE, TRUE, failed, FALSE, <<>>, {}) :
             failed \in QueryFailures}
    \cup UNION {{MainInputs(reports_dir, TRUE, TRUE, failed, TRUE, installed_apps, failing) :
                   failed \in QueryFailures, failing \in SUBSET Range(installed_apps)} :
                installed_apps \in InstalledLists}

\* One run of the command line: main is the entry point of the process and
\* runs once.  When the constructor of the scanner raises (the table cannot
\* be loaded), nothing else is called; otherwise the scanner runs.
main ==
    /\ ret.op = "__init__"
    /\ \E reports_dir \in ReportDirs :
       \E inputs \in MainInputSet(reports_dir) :
          IF ~inputs.db_ok
          THEN /\ ret' = Call("main", inputs, NONE, Exit(1, "Exception: read_csv", {}, NONE))
               /\ calls' = <<ScannerCall("__init__")>>
               /\ UNCHANGED <<input, df, device, device_info, scan_results>>
          ELSE LET run == RunScanner(inputs) IN
               /\ ret' = Call("main", inputs, NONE, run.exit)
               /\ calls' = run.calls
               /\ device' = run.scan.device
               /\ device_info' = run.scan.device_info
               /\ scan_results' = run.scan.scan_results
               /\ UNCHANGED <<input, df>>

InitMain ==
    /\ df \in SampleTables
    /\ InitScanner
    /\ input = NONE

NextMain == main

SpecMain == InitMain /\ [][NextMain]_vars

(***************************************************************************)
(* The parser of the package dump (AndroidDevice.get_app_details,          *)
(* utils/adb.py).  A Python string of the dump is kept as the sequence of  *)
(* its atoms: the words, markers and delimiters it is made of; a space, a  *)
(* colon and a double quote are atoms of their own, so that split, strip   *)
(* and the substring tests of the parser are computed on the sequence.     *)
(***************************************************************************)
MaxLines == 3

Space == " "
Colon == ":"
Quote == "\""

\* s.find(m) + 1: the first place where m occurs in s, 0 when it does not.
Find(s, m) ==
    LET places == {i \in 1..(Len(s) - Len(m) + 1) : SubSeq(s, i, i + Len(m) - 1) = m}
    IN IF places = {} THEN 0 ELSE CHOOSE i \in places : \A j \in places : i <= j

\* m in s
In(m, s) == Find(s, m) # 0

\* s.startswith(m)
StartsWith(s, m) == Len(s) >= Len(m) /\ SubSeq(s, 1, Len(m)) = m

\* s.split(m)[0]
Before(s, m) == IF In(m, s) THEN SubSeq(s, 1, Find(s, m) - 1) ELSE s

\* s.split(m)[1], for a string s in which m occurs
After(s, m) ==
    LET rest == SubSeq(s, Find(s, m) + Len(m), Len(s)) IN Before(rest, m)

\* s.strip()
Strip(s) ==
    LET kept == {i \in 1..Len(s) : s[i] # Space} IN
    IF kept = {} THEN <<>>
    ELSE SubSeq(s, CHOOSE i \in kept : \A j \in kept : i <= j,
                   CHOOSE i \in kept : \A j \in kept : i >= j)

\* s.split()[0]: raises IndexError when s holds no word.
FirstWord(s) ==
    IF Strip(s) = <<>> THEN Raises ELSE Returns(Before(Strip(s), <<Space>>))

\* Python None and a value that is not None.
None == [isNone |-> TRUE, s |-> <<>>]
Some(s) == [isNone |-> FALSE, s |-> s]

\* The texts the rules of the parser look for.
ApplicationInfoMark == <<"applicationInfo">>
LabelMark == <<"label=">>
InstallInitiatorMark == <<"installInitiator", Colon>>
FirstInstallTimeMark == <<"firstInstallTime=">>
LastUpdateTimeMark == <<"lastUpdateTime=">>
RequestedHeader == <<"requested", Space, "permissions", Colon>>
RuntimeHeader == <<"runtime", Space, "permissions", Colon>>
InstallHeader == <<"install", Space, "permissions", Colon>>
PermissionPrefix == <<"android.permission.">>
GrantedTrue == <<"granted=", "true">>
GrantedFalse == <<"granted=", "false">>
LibraryInfoMark == <<"libraryInfo">>
SharedUserMark == <<"sharedUser=">>

\* The details dictionary before the first line is read.
DefaultDetails(package_id) ==
    [package_id |-> package_id,
     app_name |-> <<package_id>>,
     permissions |-> [requested |-> <<>>, granted |-> <<>>, denied |-> <<>>],
     install_source |-> None,
     first_install_time |-> None,
     last_update_time |-> None,
     network_permissions |-> <<>>,
     shared_libraries |-> <<>>,
     shared_user_ids |-> <<>>]

\* Variant of ExtractLabel: a label without a name gives the empty name.
ExtractLabel_empty_name(line) ==
    LET label_part == After(line, LabelMark) IN
    IF In(<<Quote>>, label_part)
    THEN Returns(After(label_part, <<Quote>>))
    ELSE IF FirstWord(label_part).raised THEN Returns(<<>>)
    ELSE FirstWord(label_part)

\* The label of an application-info line holding label=; IndexError when no
\* name follows.
ExtractLabel(line) ==
    LET label_part == After(line, LabelMark) IN
    IF In(<<Quote>>, label_part)
    THEN Returns(After(label_part, <<Quote>>))
    ELSE FirstWord(label_part)

\* The body of the loop over the lines: the if / elif chain applied to one
\* stripped line; st is [details, current_section].
ParseLine(st, raw_line) ==
    LET line == Strip(raw_line)
        details == st.details
        permissions == details.permissions
        section == st.current_section
    IN
    IF In(ApplicationInfoMark, line)
    THEN IF In(LabelMark, line) /\ ~ExtractLabel(line).raised
         THEN [st EXCEPT !.details.app_name = ExtractLabel(line).val]
         ELSE st
    ELSE IF In(InstallInitiatorMark, line)
    THEN [st EXCEPT !.details.install_source =
                        Some(Strip(After(line, InstallInitiatorMark)))]
    ELSE IF In(FirstInstallTimeMark, line)
    THEN [st EXCEPT !.details.first_install_time =
                        Some(Before(After(line, FirstInstallTimeMark), <<Space>>))]
    ELSE IF In(LastUpdateTimeMark, line)
    THEN [st EXCEPT !.details.last_update_time =
                        Some(Before(After(line, LastUpdateTimeMark), <<Space>>))]
    ELSE IF In(RequestedHeader, line)
    THEN [st EXCEPT !.current_section = "requested"]
    ELSE IF In(RuntimeHeader, line)
    THEN [st EXCEPT !.current_section = "runtime"]
    ELSE IF In(InstallHeader, line)
    THEN [st EXCEPT !.current_section = "install"]
    ELSE IF section = "requested" /\ StartsWith(line, PermissionPrefix)
    THEN [st EXCEPT !.details.permissions.requested = Append(@, Strip(line))]
    ELSE IF section = "runtime" /\ In(GrantedTrue, line)
    THEN [st EXCEPT !.details.permissions.granted =
                        Append(@, Strip(Before(line, <<Colon>>)))]
    ELSE IF section = "runtime" /\ In(GrantedFalse, line)
    THEN [st EXCEPT !.details.permissions.denied =
                        Append(@, Strip(Before(line, <<Colon>>)))]
    ELSE IF In(<<"INTERNET">>, line) \/ In(<<"NETWORK">>, line)
    THEN [st EXCEPT !.details.network_permissions = Append(@, Strip(line))]
    ELSE IF In(LibraryInfoMark, line)
    THEN [st EXCEPT !.details.shared_libraries = Append(@, Strip(line))]
    ELSE IF In(SharedUserMark, line)
    THEN [st EXCEPT !.details.shared_user_ids =
                        Append(@, Strip(After(line, SharedUserMark)))]
    ELSE st

\* The loop over the lines of the dump, from line i on.
RECURSIVE ParseLines(_, _, _)
ParseLines(st, lines, i) ==
    IF i > Len(lines) THEN st
    ELSE ParseLines(ParseLine(st, lines[i]), lines, i + 1)

\* Variant of parse_app_details: the section tag starts as requested.
parse_app_details_tag_requested(package_id, returncode, lines) ==
    IF returncode # 0
    THEN [exc |-> "RuntimeError: ADB command failed", val |-> NONE]
    ELSE [exc |-> NONE,
          val |-> ParseLines([details |-> DefaultDetails(package_id),
                              current_section |-> "requested"], lines, 1).details]

\* AndroidDevice.get_app_details: raises when pm dump exits non-zero, else
\* parses its output.
parse_app_details(package_id, returncode, lines) ==
    IF returncode # 0
    THEN [exc |-> "RuntimeError: ADB command failed", val |-> NONE]
    ELSE [exc |-> NONE,
          val |-> ParseLines([details |-> DefaultDetails(package_id),
                              current_section |-> NONE], lines, 1).details]

\* Lines of a package dump.
DumpLines ==
    {<<>>,
     <<"Packages", Colon>>,
     <<"applicationInfo", Space, "label=", Quote, "Test", Space, "App", Quote>>,
     <<"applicationInfo", Space, "label=", "Plain", Space, "flags=1">>,
     <<"applicationInfo", Space, "label=">>,
     <<"applicationInfo", Space, "firstInstallTime=", "2023-01-01">>,
     <<"installInitiator", Colon, Space, "com.android.vending">>,
     <<"installInitiator", Colon, Space, "other.store">>,
     <<"firstInstallTime=", "2023-01-01", Space, "lastUpdateTime=", "2023-12-01">>,
     <<"lastUpdateTime=", "2023-12-02", Space, "10", Colon, "30">>,
     <<"requested", Space, "permissions", Colon>>,
     <<"runtime", Space, "permissions", Colon>>,
     <<"install", Space, "permissions", Colon>>,
     <<Space, Space, "android.permission.", "INTERNET">>,
     <<"android.permission.", "CAMERA">>,
     <<"android.permission.", "CAMERA", Colon, Space, "granted=", "true">>,
     <<"android.permission.", "RECORD_AUDIO", Colon, Space, "granted=", "false">>,
     <<"libraryInfo", Colon, Space, "org.apache.http">>,
     <<"sharedUser=", "android.uid.system">>}

Dumps == SeqsUpTo(DumpLines, MaxLines)

\* The outcomes of pm dump: a non-zero exit code, or a text.
DumpInputs ==
    {[package_id |-> "com.test.app1", returncode |-> 1, lines |-> <<>>]}
    \cup {[package_id |-> "com.test.app1", returncode |-> 0, lines |-> lines] :
             lines \in Dumps}

\* A call of AndroidDevice.get_app_details on the dump of the input.
DeviceGetAppDetails ==
    LET r == parse_app_details(input.package_id, input.returncode, input.lines) IN
    /\ ret' = Call("AndroidDevice.get_app_details", input, r.exc, r.val)
    /\ calls' = <<>>
    /\ UNCHANGED <<df, device, device_info, scan_results, input>>

InitDump ==
    /\ input \in DumpInputs
    /\ df = [keycol |-> "APK", rows |-> <<>>]
    /\ InitScanner

NextDump == DeviceGetAppDetails

SpecDump == InitDump /\ [][NextDump]_vars

(***************************************************************************)
(* The permission categorizer (utils/risk.py).                             *)
(***************************************************************************)
MaxPerms == 3

\* The categories in the order of the dictionary.
CategoryOrder ==
    <<"location", "camera", "microphone", "contacts", "storage", "phone", "sms",
      "calendar", "sensors", "activity_recognition">>

PERMISSION_CATEGORIES ==
    [category \in Range(CategoryOrder) |->
        CASE category = "location" ->
                {"android.permission.ACCESS_FINE_LOCATION",
                 "android.permission.ACCESS_COARSE_LOCATION",
                 "android.permission.ACCESS_BACKGROUND_LOCATION"}
          [] category = "camera" -> {"android.permission.CAMERA"}
          [] category = "microphone" -> {"android.permission.RECORD_AUDIO"}
          [] category = "contacts" ->
                {"android.permission.READ_CONTACTS",
                 "android.permission.WRITE_CONTACTS",
                 "android.permission.GET_ACCOUNTS"}
          [] category = "storage" ->
                {"android.permission.READ_EXTERNAL_STORAGE",
                 "android.permission.WRITE_EXTERNAL_STORAGE",
                 "android.permission.MANAGE_EXTERNAL_STORAGE",
                 "android.permission.ACCESS_MEDIA_LOCATION"}
          [] category = "phone" ->
                {"android.permission.READ_PHONE_STATE",
                 "android.permission.CALL_PHONE",
                 "android.permission.READ_CALL_LOG",
                 "android.permission.WRITE_CALL_LOG",
                 "android.permission.ADD_VOICEMAIL",
                 "android.permission.USE_SIP",
                 "android.permission.PROCESS_OUTGOING_CALLS"}
          [] category = "sms" ->
                {"android.permission.SEND_SMS",
                 "android.permission.RECEIVE_SMS",
                 "android.permission.READ_SMS",
                 "android.permission.RECEIVE_WAP_PUSH",
                 "android.permission.RECEIVE_MMS"}
          [] category = "calendar" ->
                {"android.permission.READ_CALENDAR",
                 "android.permission.WRITE_CALENDAR"}
          [] category = "sensors" ->
                {"android.permission.BODY_SENSORS",
                 "android.permission.USE_FINGERPRINT",
                 "android.permission.USE_BIOMETRIC"}
          [] category = "activity_recognition" ->
                {"android.permission.ACTIVITY_RECOGNITION"}]

PRIVACY_CRITICAL_PERMISSIONS ==
    UNION {PERMISSION_CATEGORIES[category] : category \in DOMAIN PERMISSION_CATEGORIES}

\* The category the inner loop stops at for a permission: the first one, in
\* the order of the dictionary, that holds it; NONE when the loop ends
\* without a break.
RECURSIVE FirstCategory(_, _)
FirstCategory(permission, i) ==
    IF i > Len(CategoryOrder) THEN NONE
    ELSE IF permission \in PERMISSION_CATEGORIES[CategoryOrder[i]] THEN CategoryOrder[i]
    ELSE FirstCategory(permission, i + 1)

\* Variant of categorize_permissions: the categorized flag is never set, so
\* every permission is appended to other as well.
categorize_permissions_flag_unset(permissions) ==
    LET filled == [category \in Range(CategoryOrder) |->
                      SelectSeq(permissions, LAMBDA p : FirstCategory(p, 1) = category)]
        kept == {category \in DOMAIN filled : filled[category] # <<>>}
    IN [privacy_critical |->
            SelectSeq(permissions, LAMBDA p : p \in PRIVACY_CRITICAL_PERMISSIONS),
        categories |-> [category \in kept |-> filled[category]],
        other |-> permissions]

\* Variant of categorize_permissions: the empty categories are kept.
categorize_permissions_keep_empty(permissions) ==
    LET filled == [category \in Range(CategoryOrder) |->
                      SelectSeq(permissions, LAMBDA p : FirstCategory(p, 1) = category)]
    IN [privacy_critical |->
            SelectSeq(permissions, LAMBDA p : p \in PRIVACY_CRITICAL_PERMISSIONS),
        categories |-> filled,
        other |-> SelectSeq(permissions, LAMBDA p : FirstCategory(p, 1) = NONE)]

\* categorize_permissions: every permission, in the order of the input, is
\* appended to privacy_critical when it is in the union of the categories,
\* and to the list of its first category or else to other; the categories
\* left empty are removed.
categorize_permissions(permissions) ==
    LET filled == [category \in Range(CategoryOrder) |->
                      SelectSeq(permissions, LAMBDA p : FirstCategory(p, 1) = category)]
        kept == {category \in DOMAIN filled : filled[category] # <<>>}
    IN [privacy_critical |->
            SelectSeq(permissions, LAMBDA p : p \in PRIVACY_CRITICAL_PERMISSIONS),
        categories |-> [category \in kept |-> filled[category]],
        other |-> SelectSeq(permissions, LAMBDA p : FirstCategory(p, 1) = NONE)]

\* Permission strings of the inputs: members of three categories and strings
\* of no category.
PermissionSamples ==
    {"android.permission.ACCESS_FINE_LOCATION",
     "android.permission.ACCESS_COARSE_LOCATION",
     "android.permission.CAMERA",
     "android.permission.READ_SMS",
     "android.permission.INTERNET",
     "com.example.permission.CUSTOM",
     ""}

PermissionLists == SeqsUpTo(PermissionSamples, MaxPerms)

CategorizePermissions ==
    /\ ret' = Call("categorize_permissions", input, NONE, categorize_permissions(input))
    /\ calls' = <<>>
    /\ UNCHANGED <<df, device, device_info, scan_results, input>>

InitPerm ==
    /\ input \in PermissionLists
    /\ df = [keycol |-> "APK", rows |-> <<>>]
    /\ InitScanner

NextPerm == CategorizePermissions

SpecPerm == InitPerm /\ [][NextPerm]_vars

(***************************************************************************)
(* Spec: the scanner over a loaded table.  SpecDb: the queries of the      *)
(* table over every kind of cell.                                          *)
(***************************************************************************)
Init ==
    /\ df \in SampleTables
    /\ InitScanner
    /\ input = NONE

Next ==
    \/ connect_device
    \/ scan_apps
    \/ Queries

Spec == Init /\ [][Next]_vars

InitDb ==
    /\ df \in SampleTables \cup RichTables
    /\ InitScanner
    /\ input = NONE

NextDb == Queries

SpecDb == InitDb /\ [][NextDb]_vars

(***************************************************************************)
(* What the claims speak of: the rows of the table as loaded, read         *)
(* without the queries.                                                    *)
(***************************************************************************)
Listed(p) == \E i \in 1..Len(df.rows) : df.rows[i].key = p
InTable(p) == df.keycol = "APK" /\ Listed(p)
FirstRow(p) == df.rows[CHOOSE i \in 1..Len(df.rows) :
                          /\ df.rows[i].key = p
                          /\ \A j \in 1..(i - 1) : df.rows[j].key # p]
ParsedFrequency(p) == _parse_frequency(FirstRow(p).collection_frequency).val
TagList(cell) == IF cell.kind = "str" /\ cell.toks # <<"">>
                 THEN [i \in 1..Len(cell.toks) |-> StripLower(cell.toks[i])]
                 ELSE <<>>
DistinctTags(cell) == Range(TagList(cell)) \ {""}

C2_ScoreCountsDistinctTags ==
    (ret.op = "get_risk_score" /\ InTable(ret.arg)) =>
        ret.val = Min(1000, ParsedFrequency(ret.arg)
                              * (10 + Cardinality(DistinctTags(FirstRow(ret.arg).data_types))))

\* C3: every score lies in [0, 100], and the score does not decrease when
\* the frequency or the number of data types of a row grows.
C3_ScoreRangeAndMonotone ==
    ret.op = "get_risk_score" =>
        /\ 0 <= ret.val /\ ret.val <= 1000
        /\ \A p \in Packages, q \in Packages :
             (InTable(p) /\ InTable(q)) =>
                LET fp == ParsedFrequency(p)
                    fq == ParsedFrequency(q)
                    np == Len(TagList(FirstRow(p).data_types))
                    nq == Len(TagList(FirstRow(q).data_types))
                IN (fp <= fq /\ np <= nq) => get_risk_score(p) <= get_risk_score(q)

\* C4: the frequency _parse_frequency returns is never negative.
C4_FrequencyNonNegative ==
    /\ ret.op = "_parse_frequency" => ret.val >= 0
    /\ ret.op = "get_app_details" => ret.val.collection_frequency >= 0

\* C5: _parse_frequency never raises; a numeric value gives its integer part,
\* a string the integer of its first run of digits, a missing, empty or
\* digit-free value 0; a row with a digit-free frequency is classified LOW.
DigitFree(chars) == \A i \in 1..Len(chars) : ~IsDigit(chars[i])
FirstRunValue(chars) ==
    LET i == CHOOSE k \in 1..Len(chars) :
                 IsDigit(chars[k]) /\ \A j \in 1..(k - 1) : ~IsDigit(chars[j])
        e == CHOOSE k \in i..Len(chars) :
                 /\ \A j \in i..k : IsDigit(chars[j])
                 /\ (k = Len(chars) \/ ~IsDigit(chars[k + 1]))
    IN ToInt(SubSeq(chars, i, e))

C5_ParseFrequencyTotal ==
    /\ ret.op = "_parse_frequency" =>
         /\ ret.exc = NONE
         /\ ret.arg.kind = "int64" => ret.val = ret.arg.n
         /\ ret.arg.kind = "float" => ret.val = IntOfTenths(ret.arg.n)
         /\ ret.arg.kind = "nan" => ret.val = 0
         /\ (ret.arg.kind = "str" /\ DigitFree(ret.arg.s)) => ret.val = 0
         /\ (ret.arg.kind = "str" /\ ~DigitFree(ret.arg.s)) => ret.val = FirstRunValue(ret.arg.s)
    /\ (/\ ret.op = "get_risk_level"
        /\ InTable(ret.arg)
        /\ FirstRow(ret.arg).collection_frequency.kind = "str"
        /\ DigitFree(FirstRow(ret.arg).collection_frequency.s)) => ret.val = "LOW"

\* C6: a table loaded from a CSV file whose identifier column is package_id
\* is keyed by that column: get_risk_level of a listed identifier is the level
\* of its row (HIGH for 200, MEDIUM for 75, LOW for 25), never NOT_FOUND, and
\* scan_apps reports MEDIUM for an installed package whose row holds 75.
CellNumber(value) ==
    IF value.kind = "int64" THEN value.n
    ELSE IF value.kind = "float" THEN IntOfTenths(value.n)
    ELSE 0
LevelOf(f) == IF f > 75 THEN "HIGH" ELSE IF f > 25 THEN "MEDIUM" ELSE "LOW"

C6_KeyedByPackageIdColumn ==
    df.keycol = "package_id" =>
        /\ (ret.op = "get_risk_level" /\ Listed(ret.arg)) =>
              ret.val = LevelOf(CellNumber(FirstRow(ret.arg).collection_frequency))
        /\ (ret.op = "scan_apps" /\ ret.exc = NONE) =>
              \A p \in DOMAIN ret.val :
                 (Listed(p) /\ CellNumber(FirstRow(p).collection_frequency) = 75)
                    => ret.val[p].risk_level = "MEDIUM"

\* C7: for a package present in the table get_risk_factors is the list of the
\* applicable factors in the fixed order High / Moderate frequency, location,
\* contacts, camera, microphone, whatever the order of the tags in the row.
RECURSIVE Filter(_, _)
Filter(seq, keep) ==
    IF seq = <<>> THEN <<>>
    ELSE (IF Head(seq) \in keep THEN <<Head(seq)>> ELSE <<>>) \o Filter(Tail(seq), keep)

FactorOrder == <<"High data collection frequency", "Moderate data collection frequency",
                 "Collects location data", "Accesses contact information",
                 "Uses camera", "Uses microphone">>

ApplicableFactors(f, tags) ==
    (IF f > 75 THEN {"High data collection frequency"} ELSE {})
      \cup (IF 25 < f /\ f <= 75 THEN {"Moderate data collection frequency"} ELSE {})
      \cup (IF "location" \in tags THEN {"Collects location data"} ELSE {})
      \cup (IF "contacts" \in tags THEN {"Accesses contact information"} ELSE {})
      \cup (IF "camera" \in tags THEN {"Uses camera"} ELSE {})
      \cup (IF "microphone" \in tags THEN {"Uses microphone"} ELSE {})

C7_RiskFactorsFixedOrder ==
    (ret.op = "get_risk_factors" /\ InTable(ret.arg)) =>
        ret.val = Filter(FactorOrder,
                         ApplicableFactors(ParsedFrequency(ret.arg),
                                           DistinctTags(FirstRow(ret.arg).data_types)))

C7_Witness ==
    /\ ret.op = "get_risk_factors"
    /\ InTable(ret.arg)
    /\ ParsedFrequency(ret.arg) = 200
    /\ FirstRow(ret.arg).data_types.toks = <<"contacts", "location">>
    /\ ret.val = <<"High data collection frequency", "Collects location data",
                   "Accesses contact information">>

C9_AbsentPackageDefaults ==
    /\ (ret.op \in {"get_risk_level", "get_risk_score", "get_risk_factors",
                    "get_known_behaviors", "get_app_details"} /\ ~Listed(ret.arg)) =>
          /\ ret.exc = NONE
          /\ ret.op = "get_risk_level" => ret.val = "NOT_FOUND"
          /\ ret.op = "get_risk_score" => ret.val = 0
          /\ ret.op = "get_risk_factors" => ret.val = <<>>
          /\ ret.op = "get_known_behaviors" => ret.val = <<>>
          /\ ret.op = "get_app_details" => ret.val.isNone
    /\ (ret.op = "scan_apps" /\ ret.exc = NONE) =>
          \A p \in DOMAIN ret.val :
             ~Listed(p) => /\ ret.val[p].risk_level = "NOT_FOUND"
                           /\ ret.val[p].collection_frequency = 0
                           /\ ret.val[p].data_types = <<>>

C9_Witness ==
    /\ ret.op = "scan_apps"
    /\ ret.exc = NONE
    /\ df.keycol = "APK"
    /\ df.rows # <<>>
    /\ \E p \in DOMAIN ret.val : ~Listed(p) /\ ret.val[p].collection_frequency = 0

\* C10: scan_apps returns normally when detail fetches fail, and its result
\* holds exactly the enumerated packages whose fetch succeeded, before or
\* after a failing one; it is empty when every fetch fails.
C10_FailingPackagesExcluded ==
    (ret.op = "scan_apps" /\ ret.arg.enumerated) =>
        /\ ret.exc = NONE
        /\ DOMAIN ret.val = Range(ret.arg.installed_apps) \ ret.arg.failing
        /\ (ret.arg.failing = Range(ret.arg.installed_apps)) => ret.val = EmptyDict

C10_Witness ==
    /\ ret.op = "scan_apps"
    /\ ret.exc = NONE
    /\ Len(ret.arg.installed_apps) = 2
    /\ ret.arg.failing = {ret.arg.installed_apps[1]}
    /\ DOMAIN ret.val = {ret.arg.installed_apps[2]}

(***************************************************************************)
(* C11: when the enumeration of the packages fails, scan_apps raises the   *)
(* error of the enumeration, returns no mapping, and makes no other        *)
(* collaborator call than the enumeration itself: no detail fetch and no   *)
(* table query.                                                            *)
(***************************************************************************)
EnumerationFailed ==
    /\ ret.op = "scan_apps"
    /\ ~ret.arg.enumerated
    /\ calls # <<>>

C11_EnumerationFailureFatal ==
    EnumerationFailed =>
        /\ ret.exc = "RuntimeError: ADB command failed"
        /\ ret.val = NONE
        /\ calls = <<DeviceCall("get_installed_apps", NONE)>>

C11_Witness ==
    /\ EnumerationFailed
    /\ ret.exc = "RuntimeError: ADB command failed"
    /\ device = "Device"

(***************************************************************************)
(* C12: a package whose classification fails, the access to the table      *)
(* raising for that package, is left out of the mapping scan_apps returns, *)
(* and the scan continues with the other packages.                         *)
(***************************************************************************)
ScanCompleted ==
    /\ ret.op = "scan_apps"
    /\ ret.arg.enumerated

\* The access to the table raises for package p (pandas raises KeyError).
ClassificationFails(p) == Select(p).raised

C13_EntriesFromOwnRow ==
    ScanCompleted =>
        \A p \in DOMAIN ret.val :
            LET entry == ret.val[p] IN
            /\ p \in Range(ret.arg.installed_apps)
            /\ entry.package_id = p
            /\ entry.app_name = device_get_app_details(p, {}).val.app_name
            /\ IF InTable(p)
               THEN /\ entry.risk_level = LevelOf(ParsedFrequency(p))
                    /\ entry.collection_frequency = ParsedFrequency(p)
                    /\ entry.data_types = TagList(FirstRow(p).data_types)
               ELSE /\ entry.risk_level = "NOT_FOUND"
                    /\ entry.collection_frequency = 0
                    /\ entry.data_types = <<>>

C13_Witness ==
    /\ ScanCompleted
    /\ \E p, q \in DOMAIN ret.val :
          /\ InTable(p) /\ InTable(q)
          /\ ret.val[p].risk_level = "HIGH"
          /\ ret.val[q].risk_level = "LOW"
          /\ ret.arg.installed_apps = <<p, q>>
          /\ df.rows[1].key = q

(***************************************************************************)
(* C14: a call of scan_apps on a scanner whose device is None raises the   *)
(* not-connected error, returns nothing and makes no collaborator call;    *)
(* and a call of connect_device that fails on a scanner whose device is    *)
(* None leaves it None, so that the next scan_apps fails the same way.     *)
(***************************************************************************)
C14_NotConnectedFailsFirst ==
    [][/\ (device = NONE /\ ret'.op = "scan_apps") =>
              /\ ret'.exc = "RuntimeError: No device connected"
              /\ ret'.val = NONE
              /\ calls' = <<>>
       /\ (device = NONE /\ ret'.op = "connect_device" /\ ret'.exc # NONE) =>
              device' = NONE]_vars

C14_Witness ==
    /\ ret.op = "scan_apps"
    /\ ret.exc = "RuntimeError: No device connected"
    /\ device = NONE
    /\ calls = <<>>

(***************************************************************************)
(* C15: a run of main that hits a fatal error (the table cannot be loaded, *)
(* the device tool is unavailable or no device is connected, the           *)
(* enumeration of the packages fails) exits with a non-zero code and       *)
(* writes no report file; generate_report is called only right after       *)
(* scan_device, and only in a run without a fatal error.                   *)
(***************************************************************************)
MainRan == ret.op = "main"

FatalError == ~ret.arg.db_ok \/ ~ret.arg.adb_ok \/ ~ret.arg.enum_ok

C15_FatalErrorExitsWithoutReport ==
    MainRan =>
        /\ FatalError =>
              /\ ret.val.exit_code # 0
              /\ ret.val.files = {}
              /\ ScannerCall("generate_report") \notin Range(calls)
        /\ \A i \in 1..Len(calls) :
              calls[i] = ScannerCall("generate_report") =>
                 /\ i > 1
                 /\ calls[i - 1] = ScannerCall("scan_device")
                 /\ ~FatalError

C15_Witness ==
    /\ MainRan
    /\ ret.arg.db_ok /\ ret.arg.adb_ok /\ ~ret.arg.enum_ok
    /\ ret.val.exit_code = 1
    /\ ret.val.error = "RuntimeError: ADB command failed"
    /\ ret.val.files = {}

(***************************************************************************)
(* C16: a run of main in which some query of get_device_info exits         *)
(* non-zero, and nothing fatal happens, keeps the affected fields of the   *)
(* device information at their defaults, generates both reports and exits  *)
(* with code 0.                                                            *)
(***************************************************************************)
C16_QueryFailureNonFatal ==
    (MainRan /\ ~FatalError /\ ret.arg.failed # {}) =>
        /\ device_info = get_device_info(ret.arg.failed)
        /\ ("android_id" \in ret.arg.failed) => device_info.identifiers.android_id = NONE
        /\ ret.val.exit_code = 0
        /\ Cardinality(ret.val.files) = 2

(***************************************************************************)
(* C17: for every text pm dump returns with exit code 0, get_app_details   *)
(* returns a record and raises nothing; a field for which the text has no  *)
(* recognizable line keeps its default (app_name the package identifier,   *)
(* requested, granted and denied empty, install source and the two         *)
(* timestamps None); and an application-info line whose label= is followed *)
(* by no name leaves app_name as it was before that line.                  *)
(***************************************************************************)
DumpParsed ==
    /\ ret.op = "AndroidDevice.get_app_details"
    /\ input.returncode = 0

\* Some line of the dump holds the text m.
SomeLineHas(m) == \E i \in 1..Len(input.lines) : In(m, Strip(input.lines[i]))

\* Line i is an application-info line whose label= is followed by no name.
LabelWithoutName(i) ==
    LET line == Strip(input.lines[i]) IN
    /\ In(ApplicationInfoMark, line)
    /\ In(LabelMark, line)
    /\ Strip(After(line, LabelMark)) = <<>>

\* The app_name after the first i lines of the dump.
NameAfter(i) ==
    parse_app_details(input.package_id, 0, SubSeq(input.lines, 1, i)).val.app_name

C17_DumpParsingTotal ==
    DumpParsed =>
        /\ ret.exc = NONE
        /\ ret.val.package_id = input.package_id
        /\ ~(SomeLineHas(ApplicationInfoMark) /\ SomeLineHas(LabelMark)) =>
              ret.val.app_name = <<input.package_id>>
        /\ ~SomeLineHas(PermissionPrefix) => ret.val.permissions.requested = <<>>
        /\ ~SomeLineHas(GrantedTrue) => ret.val.permissions.granted = <<>>
        /\ ~SomeLineHas(GrantedFalse) => ret.val.permissions.denied = <<>>
        /\ ~SomeLineHas(InstallInitiatorMark) => ret.val.install_source = None
        /\ ~SomeLineHas(FirstInstallTimeMark) => ret.val.first_install_time = None
        /\ ~SomeLineHas(LastUpdateTimeMark) => ret.val.last_update_time = None
        /\ \A i \in 1..Len(input.lines) :
              LabelWithoutName(i) => NameAfter(i) = NameAfter(i - 1)

C17_Witness ==
    /\ DumpParsed
    /\ Len(input.lines) = 3
    /\ LabelWithoutName(3)
    /\ ~LabelWithoutName(2)
    /\ ret.val.app_name = <<"Test", Space, "App">>
    /\ ret.val.install_source = None
    /\ ret.val.permissions.requested = <<>>

(***************************************************************************)
(* C18: in the result of categorize_permissions every permission string    *)
(* occurs, in the category lists and the list other taken together, as     *)
(* many times as in the input: no occurrence is lost, added or placed in   *)
(* two lists.                                                              *)
(***************************************************************************)
Categorized == ret.op = "categorize_permissions"

\* The number of occurrences of x in seq.
Count(x, seq) == Cardinality({i \in 1..Len(seq) : seq[i] = x})

\* The number of occurrences of x in the category lists, from category i on.
RECURSIVE CountInCategories(_, _, _)
CountInCategories(x, categories, i) ==
    IF i > Len(CategoryOrder) THEN 0
    ELSE (IF CategoryOrder[i] \in DOMAIN categories
          THEN Count(x, categories[CategoryOrder[i]]) ELSE 0)
         + CountInCategories(x, categories, i + 1)

\* The strings of the result and of the input.
Mentioned ==
    Range(input) \cup Range(ret.val.other) \cup Range(ret.val.privacy_critical)
    \cup UNION {Range(ret.val.categories[c]) : c \in DOMAIN ret.val.categories}

C18_CategorizeRoundTrip ==
    Categorized =>
        /\ DOMAIN ret.val.categories \subseteq Range(CategoryOrder)
        /\ \A x \in Mentioned :
              CountInCategories(x, ret.val.categories, 1) + Count(x, ret.val.other)
                 = Count(x, input)

C18_Witness ==
    /\ Categorized
    /\ Len(input) = 3
    /\ input[1] = input[3]
    /\ input[1] \in PRIVACY_CRITICAL_PERMISSIONS
    /\ input[2] \notin PRIVACY_CRITICAL_PERMISSIONS
    /\ Len(ret.val.other) = 1

(***************************************************************************)
(* C19: in the result of categorize_permissions a permission is in         *)
(* privacy_critical iff it is in some category list, and iff it is not in  *)
(* other; no category of the returned mapping has an empty list; and every *)
(* permission of a category list is a member of that category in the       *)
(* static table.                                                           *)
(***************************************************************************)
InSomeCategoryList(x) ==
    \E c \in DOMAIN ret.val.categories : x \in Range(ret.val.categories[c])

C19_CategoriesConsistent ==
    Categorized =>
        /\ \A x \in Mentioned :
              /\ x \in Range(ret.val.privacy_critical) <=> InSomeCategoryList(x)
              /\ x \in Range(ret.val.privacy_critical) <=> x \notin Range(ret.val.other)
        /\ \A c \in DOMAIN ret.val.categories :
              /\ ret.val.categories[c] # <<>>
              /\ Range(ret.val.categories[c]) \subseteq PERMISSION_CATEGORIES[c]

C19_Witness ==
    /\ Categorized
    /\ DOMAIN ret.val.categories = {"location", "sms"}
    /\ Len(ret.val.categories["location"]) = 2
    /\ Len(ret.val.privacy_critical) = 3
    /\ ret.val.other = <<>>

(***************************************************************************)
(* C20: the lookup in the table matches the package identifier exactly,    *)
(* letter case included: for a query that differs from a key of the table  *)
(* only in letter case and equals no key, get_app_details returns None and *)
(* get_risk_level returns NOT_FOUND; a query equal to a key of the APK      *)
(* column is found.                                                        *)
(***************************************************************************)
LookupCalled == ret.op \in {"get_app_details", "get_risk_level"}

\* The query equals no key of the table but is a key in another letter case.
CaseVariantOnly(p) ==
    /\ ~Listed(p)
    /\ \E i \in 1..Len(df.rows) : Lower(df.rows[i].key) = Lower(p)

C21_LookupIgnoresCase ==
    (/\ ret.op = "get_app_details"
     /\ ret.arg \in {"com.test.app1", "COM.TEST.APP1"}
     /\ Listed("com.test.app1")) =>
        /\ ~ret.val.isNone
        /\ {"app_name", "collection_frequency"} \subseteq DOMAIN ret.val

(***************************************************************************)
(* C22: a run of main that generates the reports writes the JSON and the   *)
(* HTML document under the directory given as --reports-dir, the           *)
(* output_dir argument of generate_report.                                 *)
(***************************************************************************)
C22_ReportsUnderOutputDir ==
    (MainRan /\ ret.val.exit_code = 0) =>
        /\ Cardinality(ret.val.files) = 2
        /\ \A path \in ret.val.files : path.dir.base = ret.arg.reports_dir

(***************************************************************************)
(* C23: the app name is the one extracted from the first application-info  *)
(* line of the dump that holds label=, and the install source the one of   *)
(* the first installInitiator: line; later matching lines change neither.  *)
(***************************************************************************)
\* Line i of the dump, stripped.
DumpLine(i) == Strip(input.lines[i])

\* The places of the application-info lines holding label=, and of the
\* installInitiator: lines.
LabelLines ==
    {i \in 1..Len(input.lines) :
        In(ApplicationInfoMark, DumpLine(i)) /\ In(LabelMark, DumpLine(i))}
InitiatorLines ==
    {i \in 1..Len(input.lines) :
        ~In(ApplicationInfoMark, DumpLine(i)) /\ In(InstallInitiatorMark, DumpLine(i))}

Least(S) == CHOOSE i \in S : \A j \in S : i <= j

C23_FirstMatchingLineWins ==
    DumpParsed =>
        /\ (LabelLines # {} /\ ~LabelWithoutName(Least(LabelLines))) =>
              ret.val.app_name = ExtractLabel(DumpLine(Least(LabelLines))).val
        /\ InitiatorLines # {} =>
              ret.val.install_source =
                 Some(Strip(After(DumpLine(Least(InitiatorLines)), InstallInitiatorMark)))

(***************************************************************************)
(* C24: every rule of the parser is applied to every line, whatever other  *)
(* rule the line matches: a line holding firstInstallTime= sets the first  *)
(* install time and a line holding lastUpdateTime= the last update time,   *)
(* also when it holds both or the application-info marker; a line holding  *)
(* INTERNET or NETWORK is appended to the network permissions, also when   *)
(* it is a permission line of the requested section.                       *)
(***************************************************************************)
C24_RulesIndependent ==
    DumpParsed =>
        /\ SomeLineHas(FirstInstallTimeMark) => ~ret.val.first_install_time.isNone
        /\ SomeLineHas(LastUpdateTimeMark) => ~ret.val.last_update_time.isNone
        /\ \A i \in 1..Len(input.lines) :
              (In(<<"INTERNET">>, DumpLine(i)) \/ In(<<"NETWORK">>, DumpLine(i))) =>
                 DumpLine(i) \in Range(ret.val.network_permissions)

(***************************************************************************)
(* C25: the permission lines are attributed by the section tag: the tag is *)
(* none before the first section header and is the one of the last header  *)
(* read; requested holds, in order and with duplicates, exactly the lines  *)
(* starting with android.permission. read while the tag is requested;      *)
(* granted and denied hold the leading colon-delimited tokens of the       *)
(* granted=true and granted=false lines read while the tag is runtime;     *)
(* while the tag is none or install nothing is added to the three lists.   *)
(***************************************************************************)
\* Line i is handled by one of the rules that precede the section headers.
FieldLine(i) ==
    \/ In(ApplicationInfoMark, DumpLine(i))
    \/ In(InstallInitiatorMark, DumpLine(i))
    \/ In(FirstInstallTimeMark, DumpLine(i))
    \/ In(LastUpdateTimeMark, DumpLine(i))

\* The section a header line names, NONE for a line that is no header.
HeaderOf(i) ==
    IF FieldLine(i) THEN NONE
    ELSE IF In(RequestedHeader, DumpLine(i)) THEN "requested"
    ELSE IF In(RuntimeHeader, DumpLine(i)) THEN "runtime"
    ELSE IF In(InstallHeader, DumpLine(i)) THEN "install"
    ELSE NONE

\* The section tag when line i is read: the one of the last header before it.
TagAt(i) ==
    LET headers == {j \in 1..(i - 1) : HeaderOf(j) # NONE} IN
    IF headers = {} THEN NONE
    ELSE HeaderOf(CHOOSE j \in headers : \A k \in headers : k <= j)

\* Line i is neither handled by a field rule nor a header.
PermissionCandidate(i) == ~FieldLine(i) /\ HeaderOf(i) = NONE

RequestedLine(i) ==
    /\ PermissionCandidate(i)
    /\ TagAt(i) = "requested"
    /\ StartsWith(DumpLine(i), PermissionPrefix)

GrantedLine(i) ==
    /\ PermissionCandidate(i)
    /\ TagAt(i) = "runtime"
    /\ In(GrantedTrue, DumpLine(i))

DeniedLine(i) ==
    /\ PermissionCandidate(i)
    /\ TagAt(i) = "runtime"
    /\ ~In(GrantedTrue, DumpLine(i))
    /\ In(GrantedFalse, DumpLine(i))

\* The places 1..n that satisfy Test, in increasing order.
RECURSIVE Places(_, _)
Places(Test(_), n) ==
    IF n = 0 THEN <<>>
    ELSE IF Test(n) THEN Append(Places(Test, n - 1), n) ELSE Places(Test, n - 1)

LeadingToken(i) == Strip(Before(DumpLine(i), <<Colon>>))

C25_SectionTagAttribution ==
    DumpParsed =>
        LET n == Len(input.lines)
            requested == Places(RequestedLine, n)
            granted == Places(GrantedLine, n)
            denied == Places(DeniedLine, n)
        IN /\ ret.val.permissions.requested =
                 [k \in 1..Len(requested) |-> DumpLine(requested[k])]
           /\ ret.val.permissions.granted =
                 [k \in 1..Len(granted) |-> LeadingToken(granted[k])]
           /\ ret.val.permissions.denied =
                 [k \in 1..Len(denied) |-> LeadingToken(denied[k])]
           /\ (\A i \in 1..n : TagAt(i) \in {NONE, "install"}) =>
                 ret.val.permissions =
                    [requested |-> <<>>, granted |-> <<>>, denied |-> <<>>]

C25_Witness ==
    /\ DumpParsed
    /\ Len(input.lines) = 3
    /\ TagAt(2) = "requested"
    /\ Len(ret.val.permissions.requested) = 2
    /\ ret.val.permissions.requested[1] = ret.val.permissions.requested[2]

(***************************************************************************)
(* C26: when the table holds several rows for a package, get_app_details,  *)
(* get_risk_level, get_risk_score, get_risk_factors and                    *)
(* get_known_behaviors all use the first of them in the order of the       *)
(* table: each result is the one computed from the frequency and the data  *)
(* types of that row.                                                      *)
(***************************************************************************)
\* The table holds more than one row for package p.
Duplicated(p) ==
    /\ InTable(p)
    /\ Cardinality({i \in 1..Len(df.rows) : df.rows[i].key = p}) > 1

C26_DuplicatesUseFirstRow ==
    (/\ ret.op \in {"get_app_details", "get_risk_level", "get_risk_score",
                    "get_risk_factors", "get_known_behaviors"}
     /\ Duplicated(ret.arg)) =>
        LET f == ParsedFrequency(ret.arg)
            types == TagList(FirstRow(ret.arg).data_types)
        IN /\ ret.op = "get_app_details" =>
                 /\ ~ret.val.isNone
                 /\ ret.val.collection_frequency = f
                 /\ ret.val.data_types = types
           /\ ret.op = "get_risk_level" => ret.val = LevelOf(f)
           /\ ret.op = "get_risk_score" => ret.val = Min(1000, f * (10 + Len(types)))
           /\ ret.op = "get_risk_factors" =>
                 ret.val = Filter(FactorOrder, ApplicableFactors(f, Range(types)))
           /\ ret.op = "get_known_behaviors" =>
                 /\ Len(ret.val) = (IF f > 0 THEN 1 ELSE 0) + Len(types)
                 /\ f > 0 => ret.val[1].n = f
                 /\ \A i \in 1..Len(types) :
                       ret.val[(IF f > 0 THEN 1 ELSE 0) + i].t = types[i]

C26_Witness ==
    /\ ret.op = "get_risk_score"
    /\ Duplicated(ret.arg)
    /\ df.rows[1].collection_frequency = Float(2000)
    /\ df.rows[2].collection_frequency = Int64(75)
    /\ ret.val = 1000

(***************************************************************************)
(* C27: in the summary main prints after a successful run the counts of    *)
(* high, medium, low and unknown apps sum to the printed total, and each   *)
(* count is the number of records of the scan result with that risk level. *)
(***************************************************************************)
\* The number of records of the scan result whose risk level is level.
RecordsAt(level) ==
    Cardinality({p \in DOMAIN scan_results : scan_results[p].risk_level = level})

C27_SummaryCounts ==
    (MainRan /\ ret.val.exit_code = 0) =>
        LET printed == ret.val.stdout IN
        /\ printed.total_apps = Cardinality(DOMAIN scan_results)
        /\ printed.high + printed.medium + printed.low + printed.unknown
              = printed.total_apps
        /\ printed.high = RecordsAt("HIGH")
        /\ printed.medium = RecordsAt("MEDIUM")
        /\ printed.low = RecordsAt("LOW")
        /\ printed.unknown = RecordsAt("NOT_FOUND")

(***************************************************************************)
(* C28: a call of scan_apps that aborts leaves scan_results as it was; a   *)
(* call of connect_device that fails leaves device and device_info as they *)
(* were; a call of scan_apps that completes stores exactly the mapping it  *)
(* returns, and no other step changes scan_results.                        *)
(***************************************************************************)
C28_FailedCallsChangeNothing ==
    [][/\ (ret'.op = "scan_apps" /\ ret'.exc # NONE) =>
              scan_results' = scan_results
       /\ (ret'.op = "connect_device" /\ ret'.exc # NONE) =>
              /\ device' = device
              /\ device_info' = device_info
       /\ (ret'.op = "scan_apps" /\ ret'.exc = NONE) =>
              scan_results' = ret'.val
       /\ scan_results' # scan_results =>
              /\ ret'.op = "scan_apps"
              /\ ret'.exc = NONE]_vars

C28_Witness ==
    /\ ret.op = "scan_apps"
    /\ ret.exc = "RuntimeError: ADB command failed"
    /\ device = "Device"
    /\ Cardinality(DOMAIN scan_results) = 2

====
